---- MODULE Spec2Model ----
(***************************************************************************)
(* Model of tools/lona_dev_repl: the ProcessManager that supervises one    *)
(* QEMU child per architecture (process_manager.py) and the part of the    *)
(* tool layer that owns its lifetime (server.py).                          *)
(*                                                                         *)
(* asyncio runs one coroutine at a time and switches only at an await      *)
(* that really suspends.  Every action below is therefore one synchronous  *)
(* segment of a coroutine: from the point where it is resumed to the next  *)
(* suspension (a gate that is taken, asyncio.sleep, awaiting a task).  The  *)
(* code of a segment is written as an operator from a snapshot G of the     *)
(* whole state to the snapshot after it; an action applies one operator.   *)
(*                                                                         *)
(* Time is the wall clock counted in ticks of TickSeconds.  The model      *)
(* keeps differences only: now - last_activity per session, now - start    *)
(* per waiting coroutine, and the rest of the monitor's sleep.             *)
(***************************************************************************)
EXTENDS Integers, Sequences, FiniteSets, TLC

VARIABLES
    states,      \* ProcessManager._states: arch -> ProcessState
    order,       \* insertion order of _states (dict iteration order)
    lock,        \* ProcessState.lock of each arch: asyncio.Lock
    task,        \* the coroutines: callers, the idle monitor, close() calls
    monitor,     \* locals of _idle_monitor and the state of _idle_task
    closer,      \* locals of each close() call (the dict iterator)
    shutdown,    \* ProcessManager._shutdown
    alive,       \* children that have not exited (poll() is None)
    openFds,     \* controlling-side descriptors that are open
    pty,         \* per arch: the terminal of the current child
    launches,    \* number of children launched so far (names the next one)
    budget,      \* tool calls that may still be issued, the archs they
                 \* may name, and whether a query may come before any call
    closed,      \* server.cleanup() has dropped the manager
    exited,      \* the interpreter has exited (atexit has run)
    hist,        \* history: per arch, launches at the last restart's kill
    ev,          \* what the last step did, for the properties below
    io           \* an input of eval, the output read for it and the result

vars == <<states, order, lock, task, monitor, closer, shutdown, alive,
          openFds, pty, launches, budget, closed, exited, hist, ev, io>>

----------------------------------------------------------------------------
(* Bounds of the model *)

\* tool calls issued when all are for the default architecture (Spec), and
\* when they are for either architecture (SpecArchs)
MaxOps == 3
MaxArchOps == 2
MaxKeyOps == 2

\* lines of output before the prompt that ends an eval's wait
MaxLines == 2

(* Program constants *)

BOOT_TIMEOUT == 120
EVAL_TIMEOUT == 30
IDLE_TIMEOUT == 60
IDLE_CHECK_INTERVAL == 10

TickSeconds == 30

\* a duration in ticks, rounded up
Ticks(seconds) == (seconds + TickSeconds - 1) \div TickSeconds

BootTicks == Ticks(BOOT_TIMEOUT)
EvalTicks == Ticks(EVAL_TIMEOUT)
IdleTicks == Ticks(IDLE_TIMEOUT)
CheckTicks == Ticks(IDLE_CHECK_INTERVAL)

VALID_ARCHS == {"aarch64", "x86_64"}
DEFAULT_ARCH == "aarch64"

Callers == {"c1", "c2"}
Closers == {"x1"}
Monitor == "monitor"
Procs == Callers \cup Closers \cup {Monitor}

None == 0
Prompt == "lona> "

----------------------------------------------------------------------------
(* The snapshot and its application *)

\* the record of a step: the operation that ended in it (done, arch, err,
\* out) with the await it ended at (pc) and what its kill had found (found),
\* the arch argument of the tool call made in it (key),
\* what ensure_running returned to (er_ret), the child an eval wrote
\* to (wrote), whether that child was running and had shown a prompt
\* (ready), the eval's history (need, pend, ahead, behind), now -
\* last_activity at
\* the start of a kill by the monitor (kill_idle), and whether every
\* _kill_process that returned left its session cleared (killed, kill_clean)
NoEv ==
    [p |-> "-", done |-> "-", arch |-> "-", err |-> "-", out |-> <<>>,
     pc |-> "-", found |-> "-", key |-> <<"-">>,
     ready |-> TRUE, ahead |-> {}, behind |-> FALSE,
     er_ret |-> "none", wrote |-> -1, need |-> -1, pend |-> {},
     kill_idle |-> -1, killed |-> {}, kill_clean |-> TRUE]

Cur ==
    [states |-> states, order |-> order, lock |-> lock, task |-> task,
     monitor |-> monitor, closer |-> closer, shutdown |-> shutdown,
     alive |-> alive, openFds |-> openFds, pty |-> pty,
     launches |-> launches, budget |-> budget, closed |-> closed,
     exited |-> exited, hist |-> hist, ev |-> NoEv]

Apply(G) ==
    /\ states' = G.states
    /\ order' = G.order
    /\ lock' = G.lock
    /\ task' = G.task
    /\ monitor' = G.monitor
    /\ closer' = G.closer
    /\ shutdown' = G.shutdown
    /\ alive' = G.alive
    /\ openFds' = G.openFds
    /\ pty' = G.pty
    /\ launches' = G.launches
    /\ budget' = G.budget
    /\ closed' = G.closed
    /\ exited' = G.exited
    /\ hist' = G.hist
    /\ ev' = G.ev
    /\ io' = io

----------------------------------------------------------------------------
(* ProcessState and the registry *)

\* a coroutine that has not been called.  need and pend are history of an
\* eval: the restarts issued before it; ahead and behind too: the callers
\* whose eval on the same arch was issued before it and has neither written
\* nor ended, and whether there was one; found is history of a restart:
\* what its kill found in the session ("none", "dead" or "alive")
NewTask ==
    [op |-> "none", arch |-> "-", pc |-> "idle", waited |-> 0,
     need |-> -1, pend |-> {}, ahead |-> {}, behind |-> FALSE, found |-> "-"]

\* last_activity is kept as idle = now - last_activity; prompt_seen and
\* timed_out are history fields: a prompt was matched, a wait for the
\* prompt ran into its timeout, since the child was launched

ProcessState ==
    [process |-> None, master_fd |-> None, start_time |-> None, idle |-> 0,
     output_buffer |-> <<>>, prompt_seen |-> FALSE, timed_out |-> FALSE]

Terminal == [chan |-> <<>>, inq |-> <<>>, phase |-> "boot"]

_get_state(G, arch) ==
    IF arch \in DOMAIN G.states
    THEN G
    ELSE [G EXCEPT !.states = (arch :> ProcessState) @@ G.states,
                   !.order = Append(G.order, arch)]

\* process.poll() is None
poll_is_None(G, arch) == G.states[arch].process \in G.alive

\* the value is_running computes, for an arch that is registered
Running(G, arch) ==
    /\ arch \in DOMAIN G.states
    /\ G.states[arch].process # None
    /\ poll_is_None(G, arch)

\* state.last_activity = time.time(): the monitor's `now` is not later, so
\* its now - last_activity is not positive from here on
Touch(G, arch) ==
    [G EXCEPT !.states[arch].idle = 0,
              !.monitor.stale = @ \ {arch}]

----------------------------------------------------------------------------
(* asyncio.Lock: the gate of a session *)

\* one gate for the whole manager instead of one per session
Gate_global(arch) == DEFAULT_ARCH

\* every ProcessState has a lock of its own
Gate(arch) == arch

\* a gate that looks only at its queue: a caller that finds no waiter goes
\* in although the gate is held
lock_free_unheld(G, g) == G.lock[g].waiters = <<>>

\* acquire() goes on without a switch only if the gate is neither held nor
\* waited for
lock_free(G, g) == ~G.lock[g].locked /\ G.lock[g].waiters = <<>>

lock_take(G, g, p) ==
    [G EXCEPT !.lock[g].locked = TRUE, !.lock[g].owner = p]

\* a gate whose newest waiter is woken first
lock_wait_front(G, g, p, at) ==
    [G EXCEPT !.lock[g].waiters = <<p>> \o @, !.task[p].pc = at]

\* Lock.acquire when the gate is not free: the caller joins the waiters
lock_wait(G, g, p, at) ==
    [G EXCEPT !.lock[g].waiters = Append(@, p), !.task[p].pc = at]

lock_release(G, g) ==
    [G EXCEPT !.lock[g].locked = FALSE, !.lock[g].owner = "-"]

----------------------------------------------------------------------------
(* How a coroutine ends *)

\* the coroutine is over, with a result or an exception: a caller is free
\* for its next call, the monitor's task is done
finished(G, p, e, out) ==
    [G EXCEPT !.task = [q \in Procs |->
                          IF q = p
                          THEN [NewTask EXCEPT
                                  !.pc = IF p \in Callers THEN "idle"
                                                          ELSE "done"]
                          ELSE [G.task[q] EXCEPT !.ahead = @ \ {p}]],
              !.ev.p = p, !.ev.done = G.task[p].op,
              !.ev.arch = G.task[p].arch, !.ev.err = e, !.ev.out = out,
              !.ev.pc = G.task[p].pc, !.ev.found = G.task[p].found,
              !.monitor.idle_task = IF p = Monitor THEN "done" ELSE @]

raise(G, p, e) == finished(G, p, e, <<>>)

return_ok(G, p, out) == finished(G, p, "ok", out)

\* an exception raised inside `async with state.lock` releases the gate
raise_locked(G, p, e) ==
    raise(lock_release(G, Gate(G.task[p].arch)), p, e)

----------------------------------------------------------------------------
(* ProcessManager.eval, _wait_for_prompt, ensure_running, _start_process *)

RECURSIVE _wait_for_prompt(_, _)

\* the lines of the output that are not prompt lines (eval, lines 173-182)
result_lines(output) == SelectSeq(output, LAMBDA x : x # Prompt)

\* eval, lines 162-168: the body under the gate, up to the first sleep of
\* the wait.  os.write(None, ...) raises TypeError.
eval_locked(G, p) ==
    LET a == G.task[p].arch
        G1 == Touch(G, a)
        fd == G1.states[a].master_fd
    IN  IF fd = None
        THEN raise_locked([G1 EXCEPT !.ev.wrote = None,
                                     !.ev.ready = FALSE,
                                     !.ev.need = G.task[p].need,
                                     !.ev.pend = G.task[p].pend],
                          p, "TypeError")
        ELSE _wait_for_prompt(
                 [G1 EXCEPT !.pty[a].inq = Append(@, p),
                            !.ev.wrote = G1.states[a].process,
                            !.ev.ready = /\ Running(G1, a)
                                         /\ G1.states[a].prompt_seen,
                            !.ev.ahead = G.task[p].ahead,
                            !.ev.behind = G.task[p].behind,
                            !.task[p].ahead = {},
                            !.task[p].behind = FALSE,
                            !.ev.need = G.task[p].need,
                            !.ev.pend = G.task[p].pend,
                            !.task[p].pc = "eval_wait",
                            !.task[p].waited = 0], p)

\* eval, lines 159-161: after ensure_running has returned
eval_enter(G, p) ==
    LET a == G.task[p].arch
        G1 == _get_state(G, a)
    IN  IF lock_free(G1, Gate(a))
        THEN eval_locked(lock_take(G1, Gate(a), p), p)
        ELSE lock_wait(G1, Gate(a), p, "eval_acquire")

\* ensure_running has returned to its caller: eval goes on with its body,
\* restart and a plain ensure_running return.  er_ret records what the
\* caller finds: a running child whose prompt was seen, or not.
ensure_running_return(G, p) ==
    LET a == G.task[p].arch
        G1 == [G EXCEPT !.ev.er_ret =
                  IF Running(G, a) /\ G.states[a].prompt_seen
                  THEN "ready" ELSE "notready"]
    IN  IF G.task[p].op = "eval"
        THEN eval_enter(G1, p)
        ELSE return_ok(G1, p, <<>>)

\* ensure_running, lines 95-99: _start_process has returned, the gate is
\* released and the idle monitor is started if there is none
ensure_running_started(G, p) ==
    LET G1 == lock_release(G, Gate(G.task[p].arch))
        G2 == IF G1.monitor.idle_task \in {"None", "done"}
              THEN [G1 EXCEPT !.monitor.idle_task = "running",
                              !.monitor.cancel = FALSE,
                              !.task[Monitor].pc = "start"]
              ELSE G1
    IN  ensure_running_return(G2, p)

\* eval, lines 168-182: the prompt was seen, the result is extracted
eval_return(G, p, output) ==
    return_ok(lock_release(G, Gate(G.task[p].arch)), p, result_lines(output))

\* a timeout of the wait that also ends the child
wait_timeout_kill(G, p) ==
    LET a == G.task[p].arch
    IN  raise_locked([G EXCEPT !.states[a].timed_out = TRUE,
                               !.alive = @ \ {G.states[a].process}],
                     p, "TimeoutError")

\* _wait_for_prompt, line 153: the loop has run for the timeout
wait_timeout(G, p) ==
    LET a == G.task[p].arch
    IN  raise_locked([G EXCEPT !.states[a].timed_out = TRUE],
                     p, "TimeoutError")

\* _wait_for_prompt, lines 135-153: one iteration of the loop.  It raises,
\* returns to _start_process or eval, or sleeps (pc stays).
_wait_for_prompt(G, p) ==
    LET a == G.task[p].arch
        boot == G.task[p].pc = "boot_wait"
        timeout == IF boot THEN BootTicks ELSE EvalTicks
    IN  IF G.task[p].waited >= timeout
        THEN wait_timeout(G, p)
        ELSE IF G.states[a].process = None \/ ~poll_is_None(G, a)
        THEN raise_locked(G, p, "RuntimeError")
        ELSE LET buf == G.states[a].output_buffer \o G.pty[a].chan
                 G1 == [G EXCEPT !.states[a].output_buffer = buf,
                                 !.pty[a].chan = <<>>]
             IN  IF buf # <<>> /\ buf[Len(buf)] = Prompt
                 THEN LET G2 == [G1 EXCEPT
                                   !.states[a].output_buffer = <<>>,
                                   !.states[a].prompt_seen = TRUE]
                      IN  IF boot
                          THEN ensure_running_started(G2, p)
                          ELSE eval_return(G2, p, buf)
                 ELSE G1

\* _start_process, lines 104-129: a new terminal and child, then the wait
\* for the first prompt.  The child and its descriptor are named by the
\* number of the launch.
_start_process(G, p) ==
    LET a == G.task[p].arch
        id == G.launches + 1
        G1 == [G EXCEPT !.launches = id,
                        !.alive = @ \cup {id},
                        !.openFds = @ \cup {id},
                        !.pty[a] = Terminal,
                        !.states[a] = [process |-> id, master_fd |-> id,
                                       start_time |-> id, idle |-> 0,
                                       output_buffer |-> <<>>,
                                       prompt_seen |-> FALSE,
                                       timed_out |-> FALSE],
                        !.monitor.stale = @ \ {a},
                        !.task[p].pc = "boot_wait",
                        !.task[p].waited = 0]
    IN  _wait_for_prompt(G1, p)

\* a launch without the check of the child that is there
ensure_running_locked_unchecked(G, p) == _start_process(G, p)

\* ensure_running, lines 89-95: under the gate.  `return` inside the
\* `async with` leaves ensure_running at once (lines 98-99 are skipped).
ensure_running_locked(G, p) ==
    LET a == G.task[p].arch
    IN  IF G.states[a].process # None /\ poll_is_None(G, a)
        THEN ensure_running_return(lock_release(Touch(G, a), Gate(a)), p)
        ELSE _start_process(G, p)

\* ensure_running, lines 86-88
ensure_running(G, p) ==
    LET a == G.task[p].arch
        G1 == _get_state(G, a)
    IN  IF lock_free(G1, Gate(a))
        THEN ensure_running_locked(lock_take(G1, Gate(a), p), p)
        ELSE lock_wait(G1, Gate(a), p, "er_acquire")

----------------------------------------------------------------------------
(* _kill_process and its callers: restart, _idle_monitor, close *)

RECURSIVE _kill_process(_, _)
RECURSIVE _idle_monitor_loop(_)
RECURSIVE close_loop(_, _)

\* history for the order of restart and eval: the children launched so far
\* are the ones from before this restart's kill
restart_killed(G, p) ==
    LET a == G.task[p].arch
    IN  [G EXCEPT !.hist[a] = G.launches,
                  !.task = [q \in Procs |->
                      IF p \in G.task[q].pend
                      THEN [G.task[q] EXCEPT !.pend = @ \ {p},
                                             !.need = G.launches]
                      ELSE G.task[q]]]

\* restart, lines 188-192: the gate is released after the kill, then
\* ensure_running takes it again
restart_killed_return(G, p) ==
    ensure_running(restart_killed(lock_release(G, Gate(G.task[p].arch)), p), p)

\* _idle_monitor, line 234-235: the loop condition and the sleep
_idle_monitor_sleep(G) ==
    IF G.shutdown
    THEN [G EXCEPT !.task[Monitor].pc = "done",
                   !.task[Monitor].arch = "-",
                   !.monitor.sweep = <<>>, !.monitor.stale = {},
                   !.monitor.idle_task = "done"]
    ELSE [G EXCEPT !.task[Monitor].pc = "sleep",
                   !.task[Monitor].arch = "-",
                   !.monitor.sweep = <<>>, !.monitor.stale = {},
                   !.monitor.sleep = CheckTicks]

\* _idle_monitor, lines 238-245: the sweep over list(self._states.items()),
\* from the next arch of the list to the first gate that is taken.
\* monitor.stale holds the archs with now - last_activity > IDLE_TIMEOUT.
_idle_monitor_loop(G) ==
    IF G.monitor.sweep = <<>>
    THEN _idle_monitor_sleep(G)
    ELSE LET a == Head(G.monitor.sweep)
             G1 == [G EXCEPT !.monitor.sweep = Tail(@),
                             !.task[Monitor].arch = a]
         IN  IF G1.states[a].process = None \/ ~poll_is_None(G1, a)
             THEN _idle_monitor_loop(G1)
             ELSE IF a \in G1.monitor.stale
             THEN IF lock_free(G1, Gate(a))
                  THEN _kill_process(lock_take(G1, Gate(a), Monitor), Monitor)
                  ELSE lock_wait(G1, Gate(a), Monitor, "reap_acquire")
             ELSE _idle_monitor_loop(G1)

\* server.cleanup, line 129, after close has returned: the manager is dropped
cleanup_return(G, x) ==
    [return_ok(G, x, <<>>) EXCEPT !.closed = TRUE]

\* close, lines 268-270: `for state in self._states.values()`, from the next
\* value to the first suspension.  The dict iterator raises RuntimeError
\* when the dict has changed size since the loop began.
close_loop(G, x) ==
    IF Len(G.order) # G.closer[x].size
    THEN raise(G, x, "RuntimeError")
    ELSE IF G.closer[x].idx = G.closer[x].size
    THEN cleanup_return(G, x)
    ELSE LET a == G.order[G.closer[x].idx + 1]
             G1 == [G EXCEPT !.closer[x].idx = @ + 1, !.task[x].arch = a]
         IN  IF lock_free(G1, Gate(a))
             THEN _kill_process(lock_take(G1, Gate(a), x), x)
             ELSE lock_wait(G1, Gate(a), x, "close_acquire")

\* _kill_process has returned to its caller, which leaves `async with`
_kill_process_return(G0, p) ==
    LET a == G0.task[p].arch
        G == [G0 EXCEPT !.ev.killed = @ \cup {a},
                        !.ev.kill_clean = @ /\ G0.states[a].process = None
                                            /\ G0.states[a].master_fd = None
                                            /\ G0.states[a].start_time = None]
    IN
    IF p \in Callers
    THEN restart_killed_return(G, p)
    ELSE IF p = Monitor
    THEN _idle_monitor_loop(lock_release(G, Gate(G.task[p].arch)))
    ELSE close_loop(lock_release(G, Gate(G.task[p].arch)), p)

\* _kill_process, lines 212-230: after the grace period.  SIGKILL ends a
\* child that is still running; os.close of a descriptor that is not open
\* raises OSError, which is caught.  state.process.poll() on None raises
\* AttributeError.
_kill_process_finish(G, p) ==
    LET a == G.task[p].arch
        s == G.states[a]
    IN  IF s.process = None
        THEN raise_locked(G, p, "AttributeError")
        ELSE _kill_process_return(
                 [G EXCEPT !.alive = @ \ {s.process},
                           !.openFds = @ \ {s.master_fd},
                           !.states[a].process = None,
                           !.states[a].master_fd = None,
                           !.states[a].start_time = None,
                           !.states[a].output_buffer = <<>>,
                           !.states[a].prompt_seen = FALSE,
                           !.states[a].timed_out = FALSE,
                           !.pty[a] = Terminal], p)

\* SIGTERM without the try: a child that has exited makes getpgid raise
_kill_process_uncaught(G, p) ==
    LET a == G.task[p].arch
    IN  IF G.states[a].process = None
        THEN _kill_process_return(G, p)
        ELSE IF ~poll_is_None(G, a)
        THEN raise_locked(G, p, "ProcessLookupError")
        ELSE [G EXCEPT !.task[p].pc = "kill_wait"]

\* _kill_process, lines 196-210: SIGTERM to the group (ProcessLookupError and
\* OSError are caught), then poll: a child that has exited is cleaned up at
\* once, otherwise the coroutine sleeps.  A child that exits on SIGTERM does so
\* by ChildExit.  kill_idle records now - last_activity when the monitor
\* starts to kill a child, found what a restart's kill finds.
_kill_process(G, p) ==
    LET a == G.task[p].arch
        G0 == IF p = Monitor /\ G.states[a].process # None
              THEN [G EXCEPT !.ev.kill_idle =
                        IF @ = -1 \/ G.states[a].idle < @
                        THEN G.states[a].idle ELSE @]
              ELSE G
        G1 == IF p \in Callers
              THEN [G0 EXCEPT !.task[p].found =
                        IF G.states[a].process = None THEN "none"
                        ELSE IF poll_is_None(G, a) THEN "alive" ELSE "dead"]
              ELSE G0
    IN  IF G1.states[a].process = None
        THEN _kill_process_return(G1, p)
        ELSE IF ~poll_is_None(G1, a)
        THEN _kill_process_finish(G1, p)
        ELSE [G1 EXCEPT !.task[p].pc = "kill_wait"]

\* restart, lines 186-188
restart(G, p) ==
    LET a == G.task[p].arch
        G1 == _get_state(G, a)
    IN  IF lock_free(G1, Gate(a))
        THEN _kill_process(lock_take(G1, Gate(a), p), p)
        ELSE lock_wait(G1, Gate(a), p, "restart_acquire")

\* close, lines 259-268: the monitor is cancelled and awaited (an await of a
\* task that is done does not suspend), then the loop over the sessions
close_values(G, x) ==
    close_loop([G EXCEPT !.closer[x].idx = 0,
                         !.closer[x].size = Len(G.order)], x)

close(G, x) ==
    LET G1 == [G EXCEPT !.shutdown = TRUE,
                        !.monitor.cancel =
                            IF G.monitor.idle_task = "running" THEN TRUE ELSE @]
    IN  IF G1.monitor.idle_task = "running"
        THEN [G1 EXCEPT !.task[x].pc = "close_await"]
        ELSE close_values(G1, x)

\* _sync_cleanup, lines 274-285: SIGKILL to every running child and os.close
\* of every descriptor; the fields of the sessions are left as they are
_sync_cleanup(G) ==
    LET procs == {G.states[a].process : a \in DOMAIN G.states}
        fds == {G.states[a].master_fd : a \in DOMAIN G.states}
    IN  [G EXCEPT !.alive = @ \ procs, !.openFds = @ \ fds]

\* get_start_time, lines 247-250: what it does to the manager; its value is
\* start_time of the session
get_start_time(G, arch) == _get_state(G, arch)

\* is_running, lines 252-255: what it does to the manager; its value is
\* Running
is_running(G, arch) == _get_state(G, arch)

----------------------------------------------------------------------------
(* server.py: the arch argument of a tool, a string given as its characters *)

Whitespace == {" ", "\t", "\n", "\r"}

\* str.lower() of one character
lower_char(c) ==
    CASE c = "A" -> "a" [] c = "R" -> "r" [] c = "C" -> "c" [] c = "H" -> "h"
      [] c = "X" -> "x" [] c = "M" -> "m" [] OTHER -> c

lower(str) == [i \in 1..Len(str) |-> lower_char(str[i])]

RECURSIVE lstrip(_)
lstrip(str) ==
    IF str # <<>> /\ Head(str) \in Whitespace THEN lstrip(Tail(str)) ELSE str

RECURSIVE rstrip(_)
rstrip(str) ==
    IF str # <<>> /\ str[Len(str)] \in Whitespace
    THEN rstrip(SubSeq(str, 1, Len(str) - 1))
    ELSE str

strip(str) == rstrip(lstrip(str))

\* the members of VALID_ARCHS, character by character
Spelling ==
    [a \in VALID_ARCHS |->
        IF a = "aarch64"
        THEN <<"a", "a", "r", "c", "h", "6", "4">>
        ELSE <<"x", "8", "6", "_", "6", "4">>]

\* a check of the name with all its whitespace taken out
_validate_arch_squeezed(str) ==
    LET arch == SelectSeq(lower(str), LAMBDA c : c \notin Whitespace)
    IN  IF \E a \in VALID_ARCHS : Spelling[a] = arch
        THEN CHOOSE a \in VALID_ARCHS : Spelling[a] = arch
        ELSE "ValueError"

\* _validate_arch, lines 62-68: the arch, or the exception it raises
_validate_arch(str) ==
    LET arch == strip(lower(str))
    IN  IF \E a \in VALID_ARCHS : Spelling[a] = arch
        THEN CHOOSE a \in VALID_ARCHS : Spelling[a] = arch
        ELSE "ValueError"

\* the arch arguments that are tried: names of VALID_ARCHS as they are, in
\* capitals and with blanks around them, and strings that name no arch
ValidKeys ==
    {<<"a", "a", "r", "c", "h", "6", "4">>,
     <<" ", "A", "A", "r", "c", "h", "6", "4", "\n">>,
     <<"x", "8", "6", "_", "6", "4">>,
     <<"X", "8", "6", "_", "6", "4", " ">>}

InvalidKeys ==
    {<<>>,
     <<"a", "r", "m">>,
     <<"a", "a", "r", "c", "h", " ", "6", "4">>}

Keys == ValidKeys \cup InvalidKeys

----------------------------------------------------------------------------
(* eval, lines 170-182: the result is extracted from the output, a string
   given as its characters *)

PromptChars == <<"l", "o", "n", "a", ">", " ">>

\* str.replace(old, "\n") for an old of one or two characters
RECURSIVE replace(_, _)
replace(str, old) ==
    IF Len(str) < Len(old) THEN str
    ELSE IF SubSeq(str, 1, Len(old)) = old
         THEN <<"\n">> \o replace(SubSeq(str, Len(old) + 1, Len(str)), old)
         ELSE <<Head(str)>> \o replace(Tail(str), old)

\* clean_output, lines 37-41, on a text without escape sequences
clean_output(text) == replace(replace(text, <<"\r", "\n">>), <<"\r">>)

\* str.split("\n")
RECURSIVE split(_)
split(str) ==
    IF \E i \in 1..Len(str) : str[i] = "\n"
    THEN LET i == CHOOSE i \in 1..Len(str) :
                     /\ str[i] = "\n"
                     /\ \A j \in 1..(i - 1) : str[j] # "\n"
         IN  <<SubSeq(str, 1, i - 1)>> \o split(SubSeq(str, i + 1, Len(str)))
    ELSE <<str>>

\* "\n".join(lines)
\* the lines, each with its end
RECURSIVE join_ends(_, _)
join_ends(lines, e) ==
    IF lines = <<>> THEN <<>>
    ELSE lines[1] \o e \o join_ends(Tail(lines), e)

RECURSIVE join(_)
join(lines) ==
    IF lines = <<>> THEN <<>>
    ELSE IF Len(lines) = 1 THEN lines[1]
    ELSE lines[1] \o <<"\n">> \o join(Tail(lines))

startswith(str, prefix) ==
    /\ Len(str) >= Len(prefix)
    /\ SubSeq(str, 1, Len(prefix)) = prefix

\* line 179: the lines that are skipped
skip(line) ==
    \/ strip(line) = <<"l", "o", "n", "a", ">">>
    \/ startswith(strip(line), PromptChars)

\* lines 173-182
extract(output) ==
    strip(join(SelectSeq(split(output), LAMBDA line : ~skip(line))))

\* the inputs of eval and the lines a child puts out for them: the prompt
\* with the echoed input, results, a blank line, and lines of results that
\* begin as the prompt does
Codes == {<<"2", " ", "+", " ", "2">>, <<"4">>}

OutLines(code) ==
    {PromptChars \o code,
     <<"4">>,
     <<>>,
     <<" ", "4", " ">>,
     PromptChars \o <<"4">>,
     <<"l", "o", "n", "a", ">">>}

LineEnds == {<<"\n">>, <<"\r", "\n">>}

\* what the child has put out when the next prompt is matched: up to
\* MaxLines lines, all ended the same way, and the prompt
Buffers(code) ==
    {<<>>} \cup
    UNION {{join_ends(lines, e) :
              lines \in [1..n -> OutLines(code)], e \in LineEnds} :
           n \in 1..MaxLines}

NoIo == [code |-> <<>>, buffer |-> <<>>, result |-> <<>>, done |-> FALSE]

----------------------------------------------------------------------------
(* Initial state: the manager is constructed, nothing is registered *)


Start(calls, archs, fresh, raw) ==
    /\ states = [a \in {} |-> ProcessState]
    /\ order = <<>>
    /\ lock = [a \in VALID_ARCHS |->
                  [locked |-> FALSE, owner |-> "-", waiters |-> <<>>]]
    /\ task = [p \in Procs |-> NewTask]
    /\ monitor = [idle_task |-> "None", sweep |-> <<>>, stale |-> {},
                  sleep |-> 0, cancel |-> FALSE]
    /\ closer = [x \in Closers |-> [idx |-> 0, size |-> 0]]
    /\ shutdown = FALSE
    /\ alive = {}
    /\ openFds = {}
    /\ pty = [a \in VALID_ARCHS |-> Terminal]
    /\ launches = 0
    /\ budget = [calls |-> calls, issued |-> FALSE, archs |-> archs,
                 fresh |-> fresh, raw |-> raw]
    /\ closed = FALSE
    /\ exited = FALSE
    /\ hist = [a \in VALID_ARCHS |-> -1]
    /\ ev = NoEv

\* every call leaves the arch argument at its default; the manager is also
\* queried directly, before any tool call too
Init ==
    Start(MaxOps, {DEFAULT_ARCH}, TRUE, FALSE) /\ io = NoIo

----------------------------------------------------------------------------
(* Actions: one synchronous segment of one coroutine each *)

\* the tools of server.py
Ops == {"eval", "restart"}

\* the waits of an eval before it writes its input
BeforeWrite == {"er_acquire", "boot_wait", "eval_acquire"}

\* evals on arch a that have not written their input
PendingEvals(a) ==
    {q \in Callers : /\ task[q].op = "eval"
                     /\ task[q].arch = a
                     /\ task[q].pc \in BeforeWrite}

\* restarts of arch a that have not finished their kill
PendingRestarts(a) ==
    {q \in Callers : /\ task[q].op = "restart"
                     /\ task[q].arch = a
                     /\ task[q].pc \in {"restart_acquire", "kill_wait"}}

\* the tool raises ValueError before it asks for the manager
rejected(G, t, o, key) ==
    [G EXCEPT !.budget.calls = @ - 1,
              !.budget.issued = TRUE,
              !.ev.p = t, !.ev.done = o, !.ev.err = "ValueError",
              !.ev.key = key]

\* a tool call (server.eval, lines 86-95, server.restart, lines 112-121)
\* with its arch argument: the arch is validated, then the manager is called
Issue(t, o, key) ==
    /\ ~exited /\ ~closed
    /\ budget.calls > 0
    /\ budget.raw \/ \E a \in VALID_ARCHS : key = Spelling[a]
    /\ task[t].pc = "idle"
    /\ LET a == _validate_arch(key)
           G0 == [Cur EXCEPT
                    !.budget.calls = @ - 1,
                    !.budget.issued = TRUE,
                    !.ev.key = key,
                    !.task[t] = [NewTask EXCEPT
                        !.op = o, !.arch = a,
                        !.pend = IF o = "eval" THEN PendingRestarts(a) ELSE {},
                        !.ahead = IF o = "eval" THEN PendingEvals(a) ELSE {},
                        !.behind = o = "eval" /\ PendingEvals(a) # {},
                        !.need = IF o = "eval" /\ PendingRestarts(a) = {}
                                 THEN hist[a]
                                 ELSE IF o = "eval" THEN launches ELSE -1]]
       IN  IF a = "ValueError"
           THEN Apply(rejected(Cur, t, o, key))
           ELSE /\ a \in budget.archs
                /\ Apply(IF o = "restart" THEN restart(G0, t)
                                          ELSE ensure_running(G0, t))

\* a query of the manager (server._format_result, or a direct call):
\* neither is a coroutine
Query(a) ==
    /\ ~exited /\ ~closed
    /\ a \in budget.archs
    /\ budget.fresh \/ a \in DOMAIN states
    /\ \/ Apply(get_start_time(Cur, a))
       \/ Apply(is_running(Cur, a))

\* the gate wakes its first waiter, which goes on under the gate
Acquired(p) ==
    /\ ~exited
    /\ task[p].pc \in {"er_acquire", "eval_acquire", "restart_acquire",
                       "reap_acquire", "close_acquire"}
    /\ p = Monitor => ~monitor.cancel
    /\ LET g == Gate(task[p].arch)
       IN  /\ ~lock[g].locked
           /\ lock[g].waiters # <<>>
           /\ Head(lock[g].waiters) = p
           /\ LET G1 == lock_take([Cur EXCEPT !.lock[g].waiters = Tail(@)], g, p)
              IN  Apply(CASE task[p].pc = "er_acquire" -> ensure_running_locked(G1, p)
                          [] task[p].pc = "eval_acquire" -> eval_locked(G1, p)
                          [] OTHER -> _kill_process(G1, p))

\* a turn of the loop of _wait_for_prompt that does something: the timeout
\* has passed, the child has exited or there is output to read
WaitReady(t) ==
    LET a == task[t].arch
    IN  \/ task[t].waited >= (IF task[t].pc = "boot_wait" THEN BootTicks ELSE EvalTicks)
        \/ ~Running(Cur, a)
        \/ pty[a].chan # <<>>

Wait(t) ==
    /\ ~exited
    /\ task[t].pc \in {"boot_wait", "eval_wait"}
    /\ WaitReady(t)
    /\ Apply(_wait_for_prompt(Cur, t))

\* the grace period of _kill_process is over, or the child has exited
KillWait(p) ==
    /\ ~exited
    /\ task[p].pc = "kill_wait"
    /\ p = Monitor => ~monitor.cancel
    /\ Apply(_kill_process_finish(Cur, p))

\* the monitor's task runs for the first time
MonitorStart ==
    /\ ~exited
    /\ task[Monitor].pc = "start"
    /\ ~monitor.cancel
    /\ Apply(_idle_monitor_sleep(Cur))

\* _idle_monitor, lines 237-238: the sleep is over, now = time.time()
MonitorWake ==
    /\ ~exited
    /\ task[Monitor].pc = "sleep"
    /\ monitor.sleep = 0
    /\ ~monitor.cancel
    /\ Apply(_idle_monitor_loop(
           [Cur EXCEPT !.monitor.sweep = order,
                       !.monitor.stale =
                           {a \in DOMAIN states : states[a].idle > IdleTicks}]))

\* the cancelled monitor is resumed with CancelledError at its await: it
\* leaves the queue of a gate or releases the gate it holds, and is done
MonitorCancelled ==
    /\ ~exited
    /\ monitor.cancel
    /\ monitor.idle_task = "running"
    /\ lock' = [g \in VALID_ARCHS |->
                  [locked |-> lock[g].locked /\ lock[g].owner # Monitor,
                   owner |-> IF lock[g].owner = Monitor THEN "-" ELSE lock[g].owner,
                   waiters |-> SelectSeq(lock[g].waiters, LAMBDA q : q # Monitor)]]
    /\ task' = [task EXCEPT ![Monitor].pc = "done", ![Monitor].arch = "-"]
    /\ monitor' = [monitor EXCEPT !.idle_task = "done", !.cancel = FALSE,
                                  !.sweep = <<>>, !.stale = {}]
    /\ ev' = [NoEv EXCEPT !.p = Monitor, !.err = "CancelledError"]
    /\ UNCHANGED <<states, order, closer, shutdown, alive, openFds, pty,
                   launches, budget, closed, exited, hist, io>>

\* server.cleanup, lines 126-128: close() is called on the manager
Close(x) ==
    /\ ~exited /\ ~closed
    /\ budget.issued
    /\ task[x].pc = "idle"
    /\ Apply(close([Cur EXCEPT !.task[x].op = "close"], x))

\* close, line 264-268: the awaited monitor task is done
CloseAwaited(x) ==
    /\ ~exited
    /\ task[x].pc = "close_await"
    /\ monitor.idle_task = "done"
    /\ Apply(close_values(Cur, x))

\* asyncio.run ends: every coroutine that has not finished is cancelled,
\* which releases the gates and changes no session
loop_closed(G) ==
    [G EXCEPT !.task = [p \in Procs |->
                          IF G.task[p].pc \in {"idle", "done"}
                          THEN G.task[p]
                          ELSE [NewTask EXCEPT !.pc = "done"]],
              !.lock = [g \in VALID_ARCHS |->
                          [locked |-> FALSE, owner |-> "-", waiters |-> <<>>]],
              !.monitor = [@ EXCEPT !.idle_task = IF @ = "running" THEN "done" ELSE @,
                                    !.cancel = FALSE, !.sweep = <<>>, !.stale = {}]]

\* the interpreter exits and atexit runs _sync_cleanup
Exit ==
    /\ ~exited
    /\ budget.issued
    /\ Apply([_sync_cleanup(loop_closed(Cur)) EXCEPT !.exited = TRUE])

(* The environment: the children and the clock *)

\* the child prints its first prompt
ChildPrompt(a) ==
    /\ ~exited
    /\ Running(Cur, a)
    /\ pty[a].phase = "boot"
    /\ pty' = [pty EXCEPT ![a].phase = "ready", ![a].chan = Append(@, Prompt)]
    /\ ev' = NoEv
    /\ UNCHANGED <<states, order, lock, task, monitor, closer, shutdown, alive,
                   openFds, launches, budget, closed, exited, hist, io>>

\* the child reads a line, prints its result and a fresh prompt
ChildReply(a) ==
    /\ ~exited
    /\ Running(Cur, a)
    /\ pty[a].phase = "ready"
    /\ pty[a].inq # <<>>
    /\ pty' = [pty EXCEPT ![a].inq = Tail(@),
                          ![a].chan = @ \o <<Head(pty[a].inq), Prompt>>]
    /\ ev' = NoEv
    /\ UNCHANGED <<states, order, lock, task, monitor, closer, shutdown, alive,
                   openFds, launches, budget, closed, exited, hist, io>>

\* a child exits, by itself or on a signal
ChildExit(c) ==
    /\ ~exited
    /\ c \in alive
    /\ alive' = alive \ {c}
    /\ ev' = NoEv
    /\ UNCHANGED <<states, order, lock, task, monitor, closer, shutdown,
                   openFds, pty, launches, budget, closed, exited, hist, io>>

Waiting(p) == task[p].pc \in {"boot_wait", "eval_wait"}

\* last_activity is read only for a session that has a child (line 239)
Counts(a) == states[a].process # None /\ states[a].idle <= IdleTicks

WaitLimit(p) == IF task[p].pc = "boot_wait" THEN BootTicks ELSE EvalTicks

\* coroutine p can run now: the event loop runs it before a tick passes
\* (a step takes microseconds, the poll of a wait 50 ms, the grace period of
\* a kill at most a second)
Ready(p) ==
    \/ /\ task[p].pc \in {"er_acquire", "eval_acquire", "restart_acquire",
                          "reap_acquire", "close_acquire"}
       /\ ~lock[Gate(task[p].arch)].locked
       /\ lock[Gate(task[p].arch)].waiters # <<>>
       /\ Head(lock[Gate(task[p].arch)].waiters) = p
    \/ Waiting(p) /\ WaitReady(p)
    \/ task[p].pc = "kill_wait"
    \/ p = Monitor /\ task[p].pc = "start"
    \/ p = Monitor /\ task[p].pc = "sleep" /\ monitor.sleep = 0
    \/ p = Monitor /\ monitor.cancel
    \/ task[p].pc = "close_await" /\ monitor.idle_task = "done"

\* the passing of time makes a difference to the program: a session ages,
\* a wait or the monitor's sleep comes nearer to its end
Passing ==
    \/ \E a \in DOMAIN states : Counts(a)
    \/ \E p \in Callers : Waiting(p) /\ task[p].waited < WaitLimit(p)
    \/ task[Monitor].pc = "sleep" /\ monitor.sleep > 0

\* one tick of the clock, when no coroutine can run; differences stop
\* counting where the code no longer tells them apart
Tick ==
    /\ ~exited
    /\ \A p \in Procs : ~Ready(p)
    /\ Passing
    /\ states' = [a \in DOMAIN states |->
                    [states[a] EXCEPT !.idle = IF Counts(a) THEN @ + 1 ELSE @]]
    /\ task' = [p \in Procs |->
                  IF Waiting(p) /\ task[p].waited < WaitLimit(p)
                  THEN [task[p] EXCEPT !.waited = @ + 1]
                  ELSE task[p]]
    /\ monitor' = [monitor EXCEPT !.sleep = IF @ > 0 THEN @ - 1 ELSE @]
    /\ ev' = NoEv
    /\ UNCHANGED <<order, lock, closer, shutdown, alive, openFds, pty,
                   launches, budget, closed, exited, hist, io>>

Next ==
    \/ \E t \in Callers, o \in Ops, key \in Keys : Issue(t, o, key)
    \/ \E a \in VALID_ARCHS : Query(a)
    \/ \E p \in Procs : Acquired(p)
    \/ \E t \in Callers : Wait(t)
    \/ \E p \in Procs : KillWait(p)
    \/ MonitorStart
    \/ MonitorWake
    \/ MonitorCancelled
    \/ \E x \in Closers : Close(x)
    \/ \E x \in Closers : CloseAwaited(x)
    \/ Exit
    \/ \E a \in VALID_ARCHS : ChildPrompt(a)
    \/ \E a \in VALID_ARCHS : ChildReply(a)
    \/ \E c \in alive : ChildExit(c)
    \/ Tick

Spec == Init /\ [][Next]_vars

\* the same program with tool calls for both architectures, queried as
\* server.py does: for the arch of a tool call that has been made
InitArchs ==
    Start(MaxArchOps, VALID_ARCHS, FALSE, FALSE) /\ io = NoIo

SpecArchs == InitArchs /\ [][Next]_vars

\* the same program when the arch argument of a tool call is any of Keys
InitKeys ==
    Start(MaxKeyOps, {DEFAULT_ARCH}, FALSE, TRUE) /\ io = NoIo

SpecKeys == InitKeys /\ [][Next]_vars

----------------------------------------------------------------------------
(* The extraction of eval's result, on its own *)

InitExtract ==
    /\ Start(0, {}, FALSE, FALSE)
    /\ \E code \in Codes : \E buffer \in Buffers(code) :
          io = [NoIo EXCEPT !.code = code, !.buffer = buffer \o PromptChars]

\* eval, lines 168-182, once _wait_for_prompt has matched the prompt
Extract ==
    /\ ~io.done
    /\ io' = [io EXCEPT !.result = extract(clean_output(io.buffer)),
                        !.done = TRUE]
    /\ UNCHANGED <<states, order, lock, task, monitor, closer, shutdown,
                   alive, openFds, pty, launches, budget, closed, exited,
                   hist, ev>>

NextExtract == Extract

SpecExtract == InitExtract /\ [][NextExtract]_vars

----------------------------------------------------------------------------
(* Properties *)

InSeq(x, q) == \E i \in 1..Len(q) : q[i] = x

\* p is suspended inside `async with state.lock` of arch a: in the boot of
\* ensure_running, in the body of eval, or in a kill (by restart, the
\* monitor or close)
InGate(p, a) ==
    /\ task[p].arch = a
    /\ task[p].pc \in {"boot_wait", "eval_wait", "kill_wait"}

\* C1: for every key, at most one state-changing operation (a boot, the body
\* of an eval, a kill by restart, by the monitor or by close) is executing
\* against the session at any instant, and it is the owner of the gate.
C1_MutualExclusion ==
    \A a \in VALID_ARCHS : \A p, q \in Procs :
        InGate(p, a) /\ InGate(q, a) =>
            p = q /\ lock[Gate(a)].locked /\ lock[Gate(a)].owner = p

\* an operation is inside the gate while a caller and the monitor queue
C1_Contended ==
    \E a \in VALID_ARCHS, p \in Procs, t \in Callers :
        /\ InGate(p, a)
        /\ InSeq(t, lock[Gate(a)].waiters)
        /\ InSeq(Monitor, lock[Gate(a)].waiters)

\* C2: restart does its kill and its boot under one acquisition of the gate:
\* while a restart is between its kill and its boot, no other operation
\* executes against the same key.
C2_RestartOneAcquisition ==
    \A t \in Callers : \A q \in Procs :
        task[t].op = "restart" /\ task[t].pc = "er_acquire" =>
            ~InGate(q, task[t].arch)

\* C3: an eval issued after a restart on the same key writes its input to a
\* child launched after that restart's kill: not before the kill is over,
\* not to an earlier child and not to a session without a child.
C3_EvalAfterRestart ==
    (ev.wrote # -1 /\ (ev.need >= 0 \/ ev.pend # {})) =>
        (ev.pend = {} /\ ev.wrote # None /\ ev.wrote > ev.need)

\* C4: whenever ensure_running returns without error, the session has a
\* running child from which a prompt was seen since it was launched.
C4_EnsureRunningReady ==
    ev.er_ret # "notready"

\* C5: an eval ends with its result or with TimeoutError (BootTimeout,
\* EvalTimeout) or RuntimeError (ProcessDied), and with no other error.
C5_EvalFailures ==
    ev.done = "eval" => ev.err \in {"ok", "TimeoutError", "RuntimeError"}

\* the manager is in service and arch a has a running child whose
\* now - last_activity exceeds IDLE_TIMEOUT
Overdue(a) ==
    /\ ~exited /\ ~shutdown
    /\ Running(Cur, a)
    /\ states[a].idle > IdleTicks

\* no coroutine can run and no amount of time lets one run: the program
\* does nothing more until a new call, close or the exit
AtRest ==
    /\ \A p \in Procs : ~Ready(p)
    /\ ~Passing

\* C6: a running child that has been idle for longer than the idle timeout
\* is killed by the monitor when no further operation comes for its key: the
\* program never comes to rest with such a child, however the child came to
\* be running.
C6_IdleEviction ==
    \A a \in VALID_ARCHS : ~(Overdue(a) /\ AtRest)

\* C7: when the monitor starts to kill a child, under the gate of its
\* session, now - last_activity of the session exceeds the idle timeout.
C7_RecentNeverKilled ==
    ev.kill_idle # -1 => ev.kill_idle > IdleTicks

GatePcs ==
    {"er_acquire", "eval_acquire", "restart_acquire", "reap_acquire",
     "close_acquire"}

\* the coroutines p has to wait for at the gate it queues on: the holder
\* and the waiters before p
Ahead(p) ==
    LET l == lock[Gate(task[p].arch)]
    IN  (IF l.locked THEN {l.owner} ELSE {})
            \cup {q \in Procs : \E i, j \in 1..Len(l.waiters) :
                      i < j /\ l.waiters[i] = q /\ l.waiters[j] = p}

\* C8: operations on distinct keys never block each other: a caller's
\* operation on a key waits for a gate only behind coroutines that are at
\* work on the same key, and takes its next step when there is none,
\* whatever is going on at the gate of another key.
C8_DistinctKeysIndependent ==
    \A t \in Callers :
        task[t].pc \in GatePcs =>
            /\ InSeq(t, lock[Gate(task[t].arch)].waiters)
            /\ \A q \in Ahead(t) : task[q].arch = task[t].arch
            /\ Ahead(t) = {} => Ready(t)

\* a caller's operation on one key is inside its gate, or has just ended,
\* while the gate of the other key is held with a coroutine queued on it
C8_OtherKeyBusy ==
    \E a, b \in VALID_ARCHS, t \in Callers, q, w \in Procs :
        /\ a # b
        /\ InGate(t, a)
        /\ InGate(q, b)
        /\ InSeq(w, lock[Gate(b)].waiters)

\* the fields that _kill_process clears
Cleared(a) ==
    /\ states[a].process = None
    /\ states[a].master_fd = None
    /\ states[a].start_time = None

\* C9: a kill never raises and leaves the session stopped with process,
\* master_fd and start_time cleared, on every path: _kill_process called by
\* restart, the monitor and close, and the cleanup at exit.
C9_KillIdempotent ==
    /\ ev.err \notin {"AttributeError", "ProcessLookupError", "OSError"}
    /\ ev.kill_clean
    /\ exited => \A a \in DOMAIN states : Cleared(a)

\* C10: a restart that returns without error leaves is_running true, and a
\* restart fails only in the boot of its new child (TimeoutError or
\* RuntimeError from the wait for the prompt), never in its kill, whatever
\* the state of the prior child.
C10_RestartRunning ==
    ev.done = "restart" =>
        /\ ev.err = "ok" => Running(Cur, ev.arch)
        /\ ev.err # "ok" => /\ ev.pc = "boot_wait"
                            /\ ev.err \in {"TimeoutError", "RuntimeError"}

\* a restart has returned without error whose kill found a child that had
\* exited
C10_DeadPriorRestarted ==
    /\ ev.done = "restart"
    /\ ev.err = "ok"
    /\ ev.found = "dead"

\* C11: close comes to its end by returning, and when it does the monitor
\* is stopped and no session of the registry has a child or a descriptor,
\* whatever callers were queued on a gate or named a new arch meanwhile.
C11_CloseComplete ==
    ev.done = "close" =>
        /\ ev.err = "ok"
        /\ \A a \in DOMAIN states :
               states[a].process = None /\ states[a].master_fd = None
        /\ task[Monitor].pc \notin {"sleep", "reap_acquire", "kill_wait"}

\* C12: evals issued concurrently against one key return what the same
\* evals return one after the other: as long as no wait has timed out on
\* the child, every eval that returns has the child's answer to its own
\* input and nothing of another call's.
C12_Serialized ==
    (ev.done = "eval" /\ ev.err = "ok" /\ ~states[ev.arch].timed_out) =>
        ev.out = <<ev.p>>

\* an eval returns its own answer while another eval on the same key is
\* queued for its body
C12_Concurrent ==
    /\ ev.done = "eval" /\ ev.err = "ok" /\ ev.out = <<ev.p>>
    /\ \E q \in Callers : /\ q # ev.p
                          /\ task[q].op = "eval"
                          /\ task[q].arch = ev.arch
                          /\ task[q].pc = "eval_acquire"

\* C13: a tool call whose arch argument, lower-cased and trimmed, is not in
\* the allowed set ends with ValueError in the step that makes it, and that
\* step registers no session, launches no child, opens no descriptor and
\* takes and queues at no gate.
C13_InvalidKey ==
    [][ev'.key \in InvalidKeys =>
          /\ ev'.err = "ValueError"
          /\ UNCHANGED <<states, order, lock, task, monitor, alive, openFds,
                         pty, launches>>]_vars

\* an arch argument that names no arch is rejected while a session exists
\* with its child running
C13_Rejected ==
    /\ ev.key \in InvalidKeys
    /\ ev.err = "ValueError"
    /\ \E a \in DOMAIN states : states[a].process \in alive

\* the lines that are the prompt alone or the prompt followed by the input
IsEcho(line, code) ==
    strip(line) \in {strip(PromptChars), strip(PromptChars \o code)}

\* C14: the result of an eval is the output read up to the prompt without
\* the lines that are the prompt alone or the prompt followed by the echoed
\* input, and without them only: the other lines, joined and trimmed.
C14_ExtractionExact ==
    io.done =>
        io.result =
            strip(join(SelectSeq(split(clean_output(io.buffer)),
                                 LAMBDA line : ~IsEcho(line, io.code))))

\* the scenario of C14: the echoed input, the result 4 and a fresh prompt
\* give 4
C14_Scenario ==
    (/\ io.done
     /\ io.code = <<"2", " ", "+", " ", "2">>
     /\ clean_output(io.buffer) =
            PromptChars \o io.code \o <<"\n", "4", "\n">> \o PromptChars)
    => io.result = <<"4">>

\* C15: a query (get_start_time, is_running) leaves the registry and every
\* session's fields as they were, for an arch never referenced before too.
C15_PureQueries ==
    [][(\E a \in VALID_ARCHS : Query(a)) => UNCHANGED <<states, order>>]_vars

\* C16: when a wait for the first prompt of a child ends because the child
\* has exited, the session is stopped as the error is raised: no child, no
\* descriptor and no start time.
C16_DiedOnBootStopped ==
    (ev.err = "RuntimeError" /\ ev.pc = "boot_wait") => Cleared(ev.arch)

\* C17: when an eval writes its input, the session has a running child and
\* an open descriptor, and a prompt of that child has been seen.
C17_WriteWhenReady ==
    ev.wrote # -1 => (ev.wrote # None /\ ev.ready)

\* an ensure_running has come to its end in this step: it has returned, or
\* the wait for the first prompt has raised
EnsureRunningFinished ==
    \/ ev.er_ret # "none"
    \/ ev.pc = "boot_wait" /\ ev.err \in {"TimeoutError", "RuntimeError"}

\* C18: when an ensure_running has come to its end, by returning or by
\* raising, and no shutdown has been asked for, the idle monitor is running.
C18_MonitorStarted ==
    (EnsureRunningFinished /\ ~shutdown) => monitor.idle_task = "running"

\* C19: the step in which a wait for the prompt times out, at boot or in an
\* eval, leaves the session's child and descriptor as they were, the child
\* running if it was and the descriptor open if it was.
C19_TimeoutKeepsChild ==
    [][ev'.err = "TimeoutError" =>
          /\ states'[ev'.arch].process = states[ev'.arch].process
          /\ states'[ev'.arch].master_fd = states[ev'.arch].master_fd
          /\ alive' = alive
          /\ openFds' = openFds]_vars

\* an eval has timed out and its child is running with its descriptor open
C19_EvalTimedOut ==
    /\ ev.err = "TimeoutError" /\ ev.pc = "eval_wait"
    /\ states[ev.arch].process \in alive
    /\ states[ev.arch].master_fd \in openFds

\* a boot has timed out and its child is running with its descriptor open
C19_BootTimedOut ==
    /\ ev.err = "TimeoutError" /\ ev.pc = "boot_wait"
    /\ states[ev.arch].process \in alive
    /\ states[ev.arch].master_fd \in openFds

\* C20: when an eval writes its input, no eval on the same arch that was
\* issued before it is still waiting to write its own.
C20_ArrivalOrder ==
    (ev.wrote \notin {-1, None}) =>
        \A q \in ev.ahead :
            ~(task[q].op = "eval" /\ task[q].pc \in BeforeWrite)

\* an eval writes its input after it was issued behind another eval on the
\* same arch that had not written yet
C20_WroteBehind ==
    ev.wrote \notin {-1, None} /\ ev.behind

\* C21: the result of an eval holds no answer of the child to an input that
\* another call wrote, an eval that timed out before its answer came
\* included: every answer in it is the answer to its own input.
C21_OwnOutput ==
    (ev.done = "eval" /\ ev.err = "ok") =>
        \A i \in 1..Len(ev.out) : ev.out[i] = ev.p

\* C22: every open controlling-side descriptor is the master_fd of a
\* session: none is left open when master_fd is overwritten by a later
\* launch or cleared.
C22_NoLeakedHandle ==
    \A fd \in openFds :
        \E a \in DOMAIN states : states[a].master_fd = fd

\* C23: every running child that the manager has launched is the process of
\* a session, so that no arch has two running children: a child is launched
\* only over no child or an exited one, and a session gives up its child only
\* once the child has been killed.
C23_OneChildPerKey ==
    \A c \in alive :
        \E a \in DOMAIN states : states[a].process = c

\* a session has a running child that was launched after an earlier child
C23_Relaunched ==
    /\ launches >= 2
    /\ \E a \in DOMAIN states :
          states[a].process = launches /\ launches \in alive

====
